---- MODULE Spec2Model ----
(***************************************************************************)
(* slugmin (src/src/lib.rs): slugify and slugify_normal.                   *)
(*                                                                         *)
(* A call of either function is a scan over the code points of its input:  *)
(* an ASCII code point is handed to the closure push_char as one byte, a   *)
(* non-ASCII one is replaced by the bytes of deunicode_char(c), or by "-"  *)
(* when deunicode_char has no mapping, and each of those bytes is handed   *)
(* to push_char.  After the scan the buffer is trimmed and returned.       *)
(*                                                                         *)
(* Bytes and code points are their numbers ('a' is 97, U+00C6 is 198).     *)
(* Every variable is a function of the call: the locals of one call.       *)
(***************************************************************************)
EXTENDS Integers, Sequences, FiniteSets, TLC

VARIABLES
    s,                \* the call's argument: a sequence of code points
    mode,             \* which function was called: "slugify" or "slugify_normal"
    leave_size,       \* slugify_normal's second argument (FALSE for slugify)
    chars,            \* s.chars(): index of the next code point of s
    bytes,            \* the bytes of the inner for loop not yet pushed
    slug,             \* the buffer slug, later the String string
    prev_is_dash,
    empty_space_was,
    dot_was_before,
    pc                \* "scan", "trim" (slugify_normal's loop has popped), "done"

vars == <<s, mode, leave_size, chars, bytes, slug, prev_is_dash,
          empty_space_was, dot_was_before, pc>>

----------------------------------------------------------------------------
(* Bounds of the model. *)

\* Longest input, in code points, of a call that runs alone.
MaxLen == 3
\* Longest input, in code points, of each of two interleaved calls.
MaxLenConc == 2

----------------------------------------------------------------------------
(* The byte literals of the source. *)

b_a == 97
b_z == 122
b_0 == 48
b_9 == 57
b_A == 65
b_Z == 90
b_dash == 45
b_space == 32
b_underscore == 95
b_dot == 46

\* The code points inputs are drawn from: a 1 A - space _ . @ and the
\* non-ASCII U+00C6 (AE ligature), U+2026 (ellipsis), U+0301 (combining acute)
\* and U+E000 (private use).
Chars == {97, 49, 65, 45, 32, 95, 46, 64, 198, 8230, 769, 57344}

\* The code points of two interleaved calls: A space and U+E000.
ConcChars == {65, 32, 57344}

\* Every ASCII code point.
AsciiChars == 0..127

Inputs(alphabet, n) == UNION {[1..m -> alphabet] : m \in 0..n}

----------------------------------------------------------------------------
(* The transliteration table, an Option<&'static str>. *)

None == [some |-> FALSE, str |-> <<>>]
Some(str) == [some |-> TRUE, str |-> str]

\* unwrap_or with the default of str: None gives ""
unwrap_or_none_as_empty(o, default) == o.str

\* unwrap_or taking Some("") for None
unwrap_or_empty_as_none(o, default) ==
    IF o.some /\ o.str /= <<>> THEN o.str ELSE default

unwrap_or(o, default) == IF o.some THEN o.str ELSE default

\* deunicode::deunicode_char on the non-ASCII code points of Chars:
\* U+00C6 is "AE", U+2026 is "...", U+0301 is "" and U+E000 has no mapping.
deunicode_char(c) ==
    CASE c = 198 -> Some(<<65, 69>>)
      [] c = 8230 -> Some(<<46, 46, 46>>)
      [] c = 769 -> Some(<<>>)
      [] OTHER -> None

is_ascii(c) == c <= 127

\* char_bytes with "_" for the code point without a mapping
char_bytes_underscore(c) ==
    IF is_ascii(c) THEN <<c>> ELSE unwrap_or(deunicode_char(c), <<b_underscore>>)

\* The bytes one code point hands to push_char, in order (the body of the
\* for loop over s.chars()).
char_bytes(c) ==
    IF is_ascii(c) THEN <<c>> ELSE unwrap_or(deunicode_char(c), <<b_dash>>)

----------------------------------------------------------------------------
(* push_char of _slugify. *)

is_lower_or_digit(x) == (x >= b_a /\ x <= b_z) \/ (x >= b_0 /\ x <= b_9)

\* is_upper without its lower end: ..=b'Z'
is_upper_no_lower_end(x) == x <= b_Z

\* is_upper with its lower end off by one: b'B'..=b'Z'
is_upper_off_by_one(x) == x > b_A /\ x <= b_Z

is_upper(x) == x >= b_A /\ x <= b_Z

\* x - b'A' + b'a' leaves the range of u8: the subtraction goes below 0 or
\* the addition above 255
to_lower_wraps(x) == x - b_A < 0 \/ (x - b_A) + b_a > 255

\* to_lower with the two literals exchanged: x - b'a' + b'A' on u8
to_lower_exchanged(x) == (((x - b_a) % 256) + b_A) % 256

\* x - b'A' + b'a' on u8
to_lower(x) == (((x - b_A) % 256) + b_a) % 256

slugify_push_char(st, x) ==
    IF is_lower_or_digit(x)
    THEN [slug |-> Append(st.slug, x), prev_is_dash |-> FALSE]
    ELSE IF is_upper(x)
    THEN [slug |-> Append(st.slug, to_lower(x)), prev_is_dash |-> FALSE]
    ELSE IF ~st.prev_is_dash
    THEN [slug |-> Append(st.slug, b_dash), prev_is_dash |-> TRUE]
    ELSE st

\* slugify_init with the flag starting false
slugify_init_false == [slug |-> <<>>, prev_is_dash |-> FALSE]

\* Starts with true to avoid leading -
slugify_init == [slug |-> <<>>, prev_is_dash |-> TRUE]

ends_with(string, x) == string /= <<>> /\ string[Len(string)] = x

pop(string) == SubSeq(string, 1, Len(string) - 1)

\* slugify_trim left out
slugify_trim_missing(string) == string

\* if string.ends_with('-') { string.pop(); }
slugify_trim(string) == IF ends_with(string, b_dash) THEN pop(string) ELSE string

----------------------------------------------------------------------------
(* push_char of _slugify_normal. *)

is_space_or_underscore(x) == x = b_space \/ x = b_underscore

\* normal_push without prev_is_dash = false
normal_push_keeps_dash(st, x) ==
    [slug |-> Append(st.slug, x), prev_is_dash |-> st.prev_is_dash,
     dot_was_before |-> FALSE, empty_space_was |-> FALSE]

\* The arm b'a'..=b'z' | b'0'..=b'9', and the push of the arm b'A'..=b'Z'
normal_push(st, x) ==
    [slug |-> Append(st.slug, x), prev_is_dash |-> FALSE,
     dot_was_before |-> FALSE, empty_space_was |-> FALSE]

\* normal_case with the literals of the lowering exchanged
normal_case_exchanged(x, leave) == IF leave THEN x ELSE to_lower_exchanged(x)

\* normal_case with the test of leave_size inverted
normal_case_inverted(x, leave) == IF leave THEN to_lower(x) ELSE x

\* if leave_size { slug.push(x) } else { slug.push(x - b'A' + b'a') }
normal_case(x, leave) == IF leave THEN x ELSE to_lower(x)

\* normal_space_arm pushing b' ' for either byte
normal_space_arm_always_space(st, x) ==
    IF ~st.empty_space_was
    THEN [slug |-> Append(st.slug, b_space), prev_is_dash |-> FALSE,
          dot_was_before |-> FALSE, empty_space_was |-> TRUE]
    ELSE st

\* normal_space_arm with the flags of the arms above it: empty_space_was
\* is cleared, not set
normal_space_arm_cleared(st, x) ==
    IF ~st.empty_space_was
    THEN [slug |-> Append(st.slug, x), prev_is_dash |-> FALSE,
          dot_was_before |-> FALSE, empty_space_was |-> FALSE]
    ELSE st

\* The arm b' ' | b'_'
normal_space_arm(st, x) ==
    IF ~st.empty_space_was
    THEN [slug |-> Append(st.slug, x), prev_is_dash |-> FALSE,
          dot_was_before |-> FALSE, empty_space_was |-> TRUE]
    ELSE st

\* normal_dot_arm without empty_space_was = false
normal_dot_arm_keeps_space(st, x) ==
    IF ~st.dot_was_before
    THEN [slug |-> Append(st.slug, x), prev_is_dash |-> FALSE,
          dot_was_before |-> TRUE, empty_space_was |-> st.empty_space_was]
    ELSE st

\* The arm b'.'
normal_dot_arm(st, x) ==
    IF ~st.dot_was_before
    THEN [slug |-> Append(st.slug, x), prev_is_dash |-> FALSE,
          dot_was_before |-> TRUE, empty_space_was |-> FALSE]
    ELSE st

\* normal_dash_arm with the three flags set outside the if
normal_dash_arm_flags_outside(st) ==
    [slug |-> IF ~st.prev_is_dash THEN Append(st.slug, b_dash) ELSE st.slug,
     prev_is_dash |-> TRUE, dot_was_before |-> FALSE,
     empty_space_was |-> FALSE]

\* The arm _
normal_dash_arm(st) ==
    IF ~st.prev_is_dash
    THEN [slug |-> Append(st.slug, b_dash), prev_is_dash |-> TRUE,
          dot_was_before |-> FALSE, empty_space_was |-> FALSE]
    ELSE st

slugify_normal_push_char(st, x, leave) ==
    IF is_lower_or_digit(x) THEN normal_push(st, x)
    ELSE IF is_upper(x) THEN normal_push(st, normal_case(x, leave))
    ELSE IF is_space_or_underscore(x) THEN normal_space_arm(st, x)
    ELSE IF x = b_dot THEN normal_dot_arm(st, x)
    ELSE normal_dash_arm(st)

\* slugify_normal_init with prev_is_dash starting false
slugify_normal_init_no_dash ==
    [slug |-> <<>>, prev_is_dash |-> FALSE, dot_was_before |-> FALSE,
     empty_space_was |-> TRUE]

\* slugify_normal_init with empty_space_was starting false
slugify_normal_init_no_space ==
    [slug |-> <<>>, prev_is_dash |-> TRUE, dot_was_before |-> FALSE,
     empty_space_was |-> FALSE]

slugify_normal_init ==
    [slug |-> <<>>, prev_is_dash |-> TRUE, dot_was_before |-> FALSE,
     empty_space_was |-> TRUE]

\* trim_continues with a test for '_' too
trim_continues_underscore(string) ==
    \/ ends_with(string, b_dash)
    \/ ends_with(string, b_space)
    \/ ends_with(string, b_underscore)

\* trim_continues without the test for ' '
trim_continues_dash_only(string) == ends_with(string, b_dash)

\* The condition under which the loop pops and continues.
trim_continues(string) == ends_with(string, b_dash) \/ ends_with(string, b_space)

----------------------------------------------------------------------------
(* The two functions as functions of their arguments. *)

RECURSIVE classified(_)
\* The bytes push_char receives over the whole scan of str.
classified(str) ==
    IF str = <<>> THEN <<>> ELSE char_bytes(Head(str)) \o classified(Tail(str))

RECURSIVE slugify_scan(_, _)
slugify_scan(st, bs) ==
    IF bs = <<>> THEN st
    ELSE slugify_scan(slugify_push_char(st, Head(bs)), Tail(bs))

slugify(str) == slugify_trim(slugify_scan(slugify_init, classified(str)).slug)

RECURSIVE slugify_normal_scan(_, _, _)
slugify_normal_scan(st, bs, leave) ==
    IF bs = <<>> THEN st
    ELSE slugify_normal_scan(slugify_normal_push_char(st, Head(bs), leave),
                             Tail(bs), leave)

RECURSIVE slugify_normal_trim(_)
slugify_normal_trim(string) ==
    IF trim_continues(string) THEN slugify_normal_trim(pop(string)) ELSE string

slugify_normal(str, leave) ==
    slugify_normal_trim(
        slugify_normal_scan(slugify_normal_init, classified(str), leave).slug)

----------------------------------------------------------------------------
(* A call, step by step. *)

Calls == DOMAIN s

\* local as a static: one cell for all calls
shared(f, k, v) == [j \in DOMAIN f |-> v]

\* A local of call k is written; the locals of the other calls are not.
local(f, k, v) == [f EXCEPT ![k] = v]

\* n calls at their entry, the argument of each drawn from inputs.
InitCallsOn(n, inputs) ==
    /\ s \in [1..n -> inputs]
    /\ mode \in [1..n -> {"slugify", "slugify_normal"}]
    /\ leave_size \in [1..n -> BOOLEAN]
    /\ \A k \in 1..n : mode[k] = "slugify" => leave_size[k] = FALSE
    /\ chars = [k \in 1..n |-> 1]
    /\ bytes = [k \in 1..n |-> <<>>]
    /\ slug = [k \in 1..n |-> <<>>]
    /\ prev_is_dash =
           [k \in 1..n |-> IF mode[k] = "slugify_normal"
                           THEN slugify_normal_init.prev_is_dash
                           ELSE slugify_init.prev_is_dash]
    /\ empty_space_was =
           [k \in 1..n |-> IF mode[k] = "slugify_normal"
                           THEN slugify_normal_init.empty_space_was ELSE FALSE]
    /\ dot_was_before =
           [k \in 1..n |-> IF mode[k] = "slugify_normal"
                           THEN slugify_normal_init.dot_was_before ELSE FALSE]
    /\ pc = [k \in 1..n |-> "scan"]

InitCalls(n, alphabet, maxlen) == InitCallsOn(n, Inputs(alphabet, maxlen))

Init == InitCalls(1, Chars, MaxLen)

\* One call on an input of Init or on any single ASCII code point.
InitBytes == InitCallsOn(1, Inputs(Chars, MaxLen) \cup {<<c>> : c \in AsciiChars})

InitConc == InitCalls(2, ConcChars, MaxLenConc)

ScanOver(k) == chars[k] > Len(s[k]) /\ bytes[k] = <<>>

strict_state(k) == [slug |-> slug[k], prev_is_dash |-> prev_is_dash[k]]

normal_state(k) ==
    [slug |-> slug[k], prev_is_dash |-> prev_is_dash[k],
     dot_was_before |-> dot_was_before[k],
     empty_space_was |-> empty_space_was[k]]

\* _slugify: (push_char)(c as u8) for an ASCII code point
SlugifyAscii(k) ==
    /\ mode[k] = "slugify" /\ pc[k] = "scan"
    /\ bytes[k] = <<>> /\ chars[k] <= Len(s[k])
    /\ is_ascii(s[k][chars[k]])
    /\ LET st == slugify_push_char(strict_state(k), s[k][chars[k]])
       IN /\ slug' = local(slug, k, st.slug)
          /\ prev_is_dash' = local(prev_is_dash, k, st.prev_is_dash)
    /\ chars' = local(chars, k, chars[k] + 1)
    /\ UNCHANGED <<s, mode, leave_size, bytes, empty_space_was,
                   dot_was_before, pc>>

\* _slugify: a non-ASCII code point starts the loop over
\* deunicode_char(c).unwrap_or("-").as_bytes()
SlugifyDeunicode(k) ==
    /\ mode[k] = "slugify" /\ pc[k] = "scan"
    /\ bytes[k] = <<>> /\ chars[k] <= Len(s[k])
    /\ ~is_ascii(s[k][chars[k]])
    /\ bytes' = local(bytes, k, char_bytes(s[k][chars[k]]))
    /\ chars' = local(chars, k, chars[k] + 1)
    /\ UNCHANGED <<s, mode, leave_size, slug, prev_is_dash, empty_space_was,
                   dot_was_before, pc>>

\* _slugify: (push_char)(cx) for the next byte of the transliteration
SlugifyByte(k) ==
    /\ mode[k] = "slugify" /\ pc[k] = "scan"
    /\ bytes[k] /= <<>>
    /\ LET st == slugify_push_char(strict_state(k), Head(bytes[k]))
       IN /\ slug' = local(slug, k, st.slug)
          /\ prev_is_dash' = local(prev_is_dash, k, st.prev_is_dash)
    /\ bytes' = local(bytes, k, Tail(bytes[k]))
    /\ UNCHANGED <<s, mode, leave_size, chars, empty_space_was,
                   dot_was_before, pc>>

\* _slugify: the trim after the scan, and the return
SlugifyReturn(k) ==
    /\ mode[k] = "slugify" /\ pc[k] = "scan"
    /\ ScanOver(k)
    /\ slug' = local(slug, k, slugify_trim(slug[k]))
    /\ pc' = local(pc, k, "done")
    /\ UNCHANGED <<s, mode, leave_size, chars, bytes, prev_is_dash,
                   empty_space_was, dot_was_before>>

\* _slugify_normal: (push_char)(c as u8) for an ASCII code point
NormalAscii(k) ==
    /\ mode[k] = "slugify_normal" /\ pc[k] = "scan"
    /\ bytes[k] = <<>> /\ chars[k] <= Len(s[k])
    /\ is_ascii(s[k][chars[k]])
    /\ LET st == slugify_normal_push_char(normal_state(k), s[k][chars[k]],
                                          leave_size[k])
       IN /\ slug' = local(slug, k, st.slug)
          /\ prev_is_dash' = local(prev_is_dash, k, st.prev_is_dash)
          /\ dot_was_before' = local(dot_was_before, k, st.dot_was_before)
          /\ empty_space_was' = local(empty_space_was, k, st.empty_space_was)
    /\ chars' = local(chars, k, chars[k] + 1)
    /\ UNCHANGED <<s, mode, leave_size, bytes, pc>>

\* _slugify_normal: a non-ASCII code point starts the loop over
\* deunicode_char(c).unwrap_or("-").as_bytes()
NormalDeunicode(k) ==
    /\ mode[k] = "slugify_normal" /\ pc[k] = "scan"
    /\ bytes[k] = <<>> /\ chars[k] <= Len(s[k])
    /\ ~is_ascii(s[k][chars[k]])
    /\ bytes' = local(bytes, k, char_bytes(s[k][chars[k]]))
    /\ chars' = local(chars, k, chars[k] + 1)
    /\ UNCHANGED <<s, mode, leave_size, slug, prev_is_dash, empty_space_was,
                   dot_was_before, pc>>

\* _slugify_normal: (push_char)(cx) for the next byte of the transliteration
NormalByte(k) ==
    /\ mode[k] = "slugify_normal" /\ pc[k] = "scan"
    /\ bytes[k] /= <<>>
    /\ LET st == slugify_normal_push_char(normal_state(k), Head(bytes[k]),
                                          leave_size[k])
       IN /\ slug' = local(slug, k, st.slug)
          /\ prev_is_dash' = local(prev_is_dash, k, st.prev_is_dash)
          /\ dot_was_before' = local(dot_was_before, k, st.dot_was_before)
          /\ empty_space_was' = local(empty_space_was, k, st.empty_space_was)
    /\ bytes' = local(bytes, k, Tail(bytes[k]))
    /\ UNCHANGED <<s, mode, leave_size, chars, pc>>

\* _slugify_normal: one round of the loop that pops a trailing '-' or ' '
NormalTrimPop(k) ==
    /\ mode[k] = "slugify_normal" /\ pc[k] \in {"scan", "trim"}
    /\ ScanOver(k)
    /\ trim_continues(slug[k])
    /\ slug' = local(slug, k, pop(slug[k]))
    /\ pc' = local(pc, k, "trim")
    /\ UNCHANGED <<s, mode, leave_size, chars, bytes, prev_is_dash,
                   empty_space_was, dot_was_before>>

\* _slugify_normal: the break out of the loop, and the return
NormalReturn(k) ==
    /\ mode[k] = "slugify_normal" /\ pc[k] \in {"scan", "trim"}
    /\ ScanOver(k)
    /\ ~trim_continues(slug[k])
    /\ pc' = local(pc, k, "done")
    /\ UNCHANGED <<s, mode, leave_size, chars, bytes, slug, prev_is_dash,
                   empty_space_was, dot_was_before>>

Next ==
    \/ \E k \in Calls : SlugifyAscii(k)
    \/ \E k \in Calls : SlugifyDeunicode(k)
    \/ \E k \in Calls : SlugifyByte(k)
    \/ \E k \in Calls : SlugifyReturn(k)
    \/ \E k \in Calls : NormalAscii(k)
    \/ \E k \in Calls : NormalDeunicode(k)
    \/ \E k \in Calls : NormalByte(k)
    \/ \E k \in Calls : NormalTrimPop(k)
    \/ \E k \in Calls : NormalReturn(k)

\* One call, run alone.
Spec == Init /\ [][Next]_vars

\* Two calls, their steps interleaved in any order.
SpecConc == InitConc /\ [][Next]_vars

\* One call, run alone, that always takes its next step: the code is
\* sequential and nothing in it waits.
\* One call, run alone, on the inputs of Spec and on every ASCII code point.
SpecBytes == InitBytes /\ [][Next]_vars

SpecFair == Init /\ [][Next]_vars /\ WF_vars(Next)

----------------------------------------------------------------------------
(* What the properties below speak of. *)

Strict(k) == mode[k] = "slugify"
Normal(k) == mode[k] = "slugify_normal"
Done(k) == pc[k] = "done"

IsLower(x) == x \in 97..122
IsUpper(x) == x \in 65..90
IsDigit(x) == x \in 48..57
IsAlnum(x) == IsLower(x) \/ IsUpper(x) \/ IsDigit(x)
IsBlank(x) == x \in {32, 95}

\* The empty string or ^[a-z0-9]+(-[a-z0-9]+)*$
IsStrictSlug(str) ==
    /\ \A j \in 1..Len(str) : IsLower(str[j]) \/ IsDigit(str[j]) \/ str[j] = 45
    /\ \A j \in 1..(Len(str) - 1) : ~(str[j] = 45 /\ str[j + 1] = 45)
    /\ str /= <<>> => (str[1] /= 45 /\ str[Len(str)] /= 45)

\* The number of bytes call k has handed to push_char so far.
Pushed(k) == Len(classified(SubSeq(s[k], 1, chars[k] - 1))) - Len(bytes[k])

\* What call k returns when it runs alone.
Result(k) ==
    IF Strict(k) THEN slugify(s[k]) ELSE slugify_normal(s[k], leave_size[k])

SwapCase(c) == IF IsLower(c) THEN c - 32 ELSE IF IsUpper(c) THEN c + 32 ELSE c

\* str with the case of the ASCII letters at any set of positions changed.
CaseVariants(str) ==
    {[j \in 1..Len(str) |-> IF j \in P THEN SwapCase(str[j]) ELSE str[j]] :
        P \in SUBSET (1..Len(str))}

----------------------------------------------------------------------------
\* C1: what slugify returns is empty or matches ^[a-z0-9]+(-[a-z0-9]+)*$:
\* only a-z, 0-9 and '-', no "--", no '-' at either end, whatever bytes the
\* input and its transliteration hand to push_char.
C1_StrictSlugShape ==
    \A k \in Calls : (Strict(k) /\ Done(k)) => IsStrictSlug(slug[k])

\* A finished slugify of an input with a non-ASCII code point and a separator
\* at its end, returning a slug with a '-' inside.
C1_Witness ==
    \E k \in Calls :
        /\ Strict(k) /\ Done(k)
        /\ \E j \in 1..Len(s[k]) : ~is_ascii(s[k][j])
        /\ s[k] /= <<>> /\ ~IsAlnum(s[k][Len(s[k])])
        /\ \E j \in 1..Len(slug[k]) : slug[k][j] = 45

----------------------------------------------------------------------------
\* C2: slugify is idempotent: slugify of what a call returned is what it
\* returned, and an input that is a strict slug is returned as it is.
C2_Idempotent ==
    \A k \in Calls :
        (Strict(k) /\ Done(k)) =>
            /\ slugify(slug[k]) = slug[k]
            /\ IsStrictSlug(s[k]) => slug[k] = s[k]

\* A finished slugify that changed its input and returned a slug with an
\* upper-case letter lowered and a '-' in it.
C2_Witness ==
    \E k \in Calls :
        /\ Strict(k) /\ Done(k)
        /\ slug[k] /= s[k]
        /\ \E j \in 1..Len(s[k]) : IsUpper(s[k][j])
        /\ \E j \in 1..Len(slug[k]) : slug[k][j] = 45

----------------------------------------------------------------------------
\* C3: slugify does not see the case of ASCII letters: for every input got
\* from s by changing the case of some of its letters, prev_is_dash after
\* each byte of the scan is the same as for s, and so is the result.
C3_CaseInsensitive ==
    \A k \in Calls :
        Strict(k) =>
            \A t \in CaseVariants(s[k]) :
                /\ pc[k] = "scan" =>
                       slugify_scan(slugify_init,
                                    SubSeq(classified(t), 1, Pushed(k))
                                   ).prev_is_dash = prev_is_dash[k]
                /\ Done(k) => slugify(t) = slug[k]

\* A finished slugify of an input with an upper-case and a lower-case letter
\* and a separator between or around them.
C3_Witness ==
    \E k \in Calls :
        /\ Strict(k) /\ Done(k)
        /\ \E j \in 1..Len(s[k]) : IsUpper(s[k][j])
        /\ \E j \in 1..Len(s[k]) : IsLower(s[k][j])
        /\ \E j \in 1..Len(s[k]) : ~IsAlnum(s[k][j])
        /\ slug[k] /= <<>>

----------------------------------------------------------------------------
\* C4: every byte in the buffer of slugify_normal, and so of its result, is
\* one of a-z, 0-9, A-Z, '-', ' ', '.', '_', and none is A-Z when leave_size
\* is false.
C4_NormalAlphabet ==
    \A k \in Calls :
        Normal(k) =>
            \A j \in 1..Len(slug[k]) :
                /\ IsAlnum(slug[k][j]) \/ slug[k][j] \in {45, 32, 46, 95}
                /\ ~leave_size[k] => ~IsUpper(slug[k][j])

\* A finished slugify_normal(s, false) whose result holds the 'e' that only
\* the transliteration of U+00C6 gives.
C4_Witness ==
    \E k \in Calls :
        /\ Normal(k) /\ Done(k) /\ ~leave_size[k]
        /\ \E j \in 1..Len(slug[k]) : slug[k][j] = 101

----------------------------------------------------------------------------
\* C5: the buffer of slugify_normal never holds "--", "..", or two adjacent
\* bytes that are ' ' or '_', at any step of the scan and in the result.
C5_NoAdjacentRepeat ==
    \A k \in Calls :
        Normal(k) =>
            \A j \in 1..(Len(slug[k]) - 1) :
                /\ ~(slug[k][j] = 45 /\ slug[k][j + 1] = 45)
                /\ ~(slug[k][j] = 46 /\ slug[k][j + 1] = 46)
                /\ ~(IsBlank(slug[k][j]) /\ IsBlank(slug[k][j + 1]))

\* A finished slugify_normal whose input has ' ' next to '_' and whose
\* result holds one of them.
C5_Witness ==
    \E k \in Calls :
        /\ Normal(k) /\ Done(k)
        /\ \E j \in 1..(Len(s[k]) - 1) :
               IsBlank(s[k][j]) /\ IsBlank(s[k][j + 1]) /\ s[k][j] /= s[k][j + 1]
        /\ \E j \in 1..Len(slug[k]) : IsBlank(slug[k][j])

----------------------------------------------------------------------------
\* C6: what slugify_normal returns neither starts nor ends with '-' or ' ',
\* and what slugify returns neither starts nor ends with '-'.
C6_Trimmed ==
    \A k \in Calls :
        (Done(k) /\ slug[k] /= <<>>) =>
            /\ slug[k][1] /= 45 /\ slug[k][Len(slug[k])] /= 45
            /\ Normal(k) => (slug[k][1] /= 32 /\ slug[k][Len(slug[k])] /= 32)

\* A finished slugify_normal whose input starts with a '-' or ' ' and ends
\* with a ' ', whose trim loop has popped, and whose result is not empty.
C6_Witness ==
    \E k \in Calls :
        /\ Normal(k) /\ Done(k)
        /\ s[k] /= <<>> /\ s[k][1] \in {45, 32} /\ s[k][Len(s[k])] = 32
        /\ slug[k] /= <<>>
        /\ Len(slugify_normal_scan(slugify_normal_init, classified(s[k]),
                                   leave_size[k]).slug) > Len(slug[k])

----------------------------------------------------------------------------
\* C7: the empty input gives the empty result, and so does an input whose
\* bytes hold no letter or digit (slugify) or no letter, digit or '.'
\* (slugify_normal).
C7_DegradesToEmpty ==
    \A k \in Calls :
        Done(k) =>
            LET bs == classified(s[k])
            IN /\ s[k] = <<>> => slug[k] = <<>>
               /\ (Strict(k) /\ \A j \in 1..Len(bs) : ~IsAlnum(bs[j]))
                      => slug[k] = <<>>
               /\ (Normal(k) /\ \A j \in 1..Len(bs) :
                                    ~IsAlnum(bs[j]) /\ bs[j] /= 46)
                      => slug[k] = <<>>

\* A finished slugify_normal of an input of an unmappable code point, a '_'
\* and another separator, returning the empty string.
C7_Witness ==
    \E k \in Calls :
        /\ Normal(k) /\ Done(k)
        /\ Len(s[k]) = 3
        /\ \E j \in 1..Len(s[k]) : s[k][j] = 57344
        /\ \E j \in 1..Len(s[k]) : s[k][j] = 95
        /\ \A j \in 1..Len(s[k]) : s[k][j] \in {57344, 95, 45, 32, 64, 769}
        /\ slug[k] = <<>>

----------------------------------------------------------------------------
\* The locals of call k, and its arguments.
Locals(k) ==
    <<s[k], mode[k], leave_size[k], chars[k], bytes[k], slug[k],
      prev_is_dash[k], empty_space_was[k], dot_was_before[k], pc[k]>>

\* C8: with the steps of two calls interleaved in any order, a step changes
\* the buffer and flags of one call only, and each call returns what it
\* returns when run alone on its input and mode.
C8_CallsShareNothing ==
    /\ [](\A k \in Calls : Done(k) => slug[k] = Result(k))
    /\ [][\A j, k \in Calls :
              j /= k => (Locals(j)' = Locals(j) \/ Locals(k)' = Locals(k))]_vars

\* One call has returned a non-empty result while the other, in the other
\* mode, is in the middle of its scan with a byte in its buffer.
C8_Witness ==
    \E j, k \in Calls :
        /\ j /= k /\ mode[j] /= mode[k]
        /\ Done(j) /\ slug[j] /= <<>>
        /\ pc[k] = "scan" /\ chars[k] > 1 /\ ~ScanOver(k) /\ slug[k] /= <<>>

----------------------------------------------------------------------------
ToLower(x) == IF IsUpper(x) THEN x + 32 ELSE x

\* The length of the longest prefix of bs made of letters and digits.
RECURSIVE RunLength(_)
RunLength(bs) ==
    IF bs = <<>> \/ ~IsAlnum(Head(bs)) THEN 0 ELSE 1 + RunLength(Tail(bs))

\* The maximal runs of letters and digits of bs, in order, lower-cased.
RECURSIVE Runs(_)
Runs(bs) ==
    IF bs = <<>> THEN <<>>
    ELSE IF ~IsAlnum(Head(bs)) THEN Runs(Tail(bs))
    ELSE LET n == RunLength(bs)
         IN <<[j \in 1..n |-> ToLower(bs[j])]>>
                \o Runs(SubSeq(bs, n + 1, Len(bs)))

RECURSIVE Join(_)
Join(runs) ==
    IF runs = <<>> THEN <<>>
    ELSE IF Len(runs) = 1 THEN runs[1]
    ELSE runs[1] \o <<45>> \o Join(Tail(runs))

\* C9: slugify returns the maximal runs of letters and digits of the bytes
\* handed to push_char, lower-cased and joined by single '-'.
C9_AgreesWithReference ==
    \A k \in Calls :
        (Strict(k) /\ Done(k)) => slug[k] = Join(Runs(classified(s[k])))

\* A finished slugify of an input with a non-ASCII code point whose bytes
\* make two runs, one of them with an upper-case letter.
C9_Witness ==
    \E k \in Calls :
        /\ Strict(k) /\ Done(k)
        /\ \E j \in 1..Len(s[k]) : ~is_ascii(s[k][j])
        /\ Len(Runs(classified(s[k]))) = 2
        /\ \E j \in 1..Len(classified(s[k])) : IsUpper(classified(s[k])[j])

----------------------------------------------------------------------------
AtMostOne(a, b, c) == ~(a /\ b) /\ ~(a /\ c) /\ ~(b /\ c)

\* C10 as stated: in every state of slugify_normal, the initial one included,
\* at most one of prev_is_dash, empty_space_was, dot_was_before is true.
C10_FlagsExclusiveFromInit ==
    \A k \in Calls :
        Normal(k) =>
            AtMostOne(prev_is_dash[k], empty_space_was[k], dot_was_before[k])

\* C10 amended: until slugify_normal emits its first byte, prev_is_dash and
\* empty_space_was are both true and dot_was_before is false; once a byte is
\* in the buffer at most one of the three is true, and during the scan the
\* true one is that of the last byte emitted, the other two being cleared.
C10_FlagsExclusiveAfterFirstByte ==
    \A k \in Calls :
        Normal(k) =>
            IF slug[k] = <<>>
            THEN prev_is_dash[k] /\ empty_space_was[k] /\ ~dot_was_before[k]
            ELSE /\ AtMostOne(prev_is_dash[k], empty_space_was[k],
                              dot_was_before[k])
                 /\ pc[k] = "scan" =>
                        LET last == slug[k][Len(slug[k])]
                        IN /\ prev_is_dash[k] <=> last = 45
                           /\ empty_space_was[k] <=> IsBlank(last)
                           /\ dot_was_before[k] <=> last = 46

\* A scan of slugify_normal that has just emitted a '.' after a ' ' or '_':
\* dot_was_before is set and empty_space_was has been cleared.
C10_Witness ==
    \E k \in Calls :
        /\ Normal(k) /\ pc[k] = "scan"
        /\ Len(slug[k]) >= 2
        /\ slug[k][Len(slug[k])] = 46
        /\ IsBlank(slug[k][Len(slug[k]) - 1])
        /\ dot_was_before[k] /\ ~empty_space_was[k] /\ ~prev_is_dash[k]

----------------------------------------------------------------------------
\* A non-ASCII code point for which deunicode_char has no mapping.
Unmapped(c) == ~is_ascii(c) /\ deunicode_char(c) = None

\* str with a literal '-' in the place of every code point without a mapping.
DashForUnmapped(str) ==
    [j \in 1..Len(str) |-> IF Unmapped(str[j]) THEN 45 ELSE str[j]]

\* C11: in both modes a code point without a mapping is one '-' byte at its
\* place: after every code point the buffer and the flags are those of the
\* scan of the input with '-' written for each such code point, and so is
\* the result.
C11_UnmappedIsDash ==
    \A k \in Calls :
        LET t == DashForUnmapped(s[k])
            before == classified(SubSeq(t, 1, chars[k] - 1))
        IN /\ (pc[k] = "scan" /\ bytes[k] = <<>> /\ Strict(k)) =>
                  strict_state(k) = slugify_scan(slugify_init, before)
           /\ (pc[k] = "scan" /\ bytes[k] = <<>> /\ Normal(k)) =>
                  normal_state(k) =
                      slugify_normal_scan(slugify_normal_init, before,
                                          leave_size[k])
           /\ (Done(k) /\ Strict(k)) => slug[k] = slugify(t)
           /\ (Done(k) /\ Normal(k)) =>
                  slug[k] = slugify_normal(t, leave_size[k])

\* A finished slugify_normal of letter, unmapped code point, letter, with
\* the '-' between the two letters of its result.
C11_Witness ==
    \E k \in Calls :
        /\ Normal(k) /\ Done(k)
        /\ Len(s[k]) = 3 /\ Unmapped(s[k][2])
        /\ IsAlnum(s[k][1]) /\ IsAlnum(s[k][3])
        /\ Len(slug[k]) = 3 /\ slug[k][2] = 45

----------------------------------------------------------------------------
\* A non-ASCII code point that deunicode_char maps to the empty string.
MappedEmpty(c) == ~is_ascii(c) /\ deunicode_char(c) = Some(<<>>)

NotMappedEmpty(c) == ~MappedEmpty(c)

\* str with every code point mapped to the empty string deleted.
WithoutEmpty(str) == SelectSeq(str, NotMappedEmpty)

\* C12: in both modes a code point mapped to the empty string gives no
\* output: the step that takes it hands no byte to push_char and leaves the
\* buffer and the flags as they are, and the result is that of the input
\* with the code point deleted.
C12_EmptyMappingIsNothing ==
    /\ [](\A k \in Calls :
              Done(k) =>
                  slug[k] = IF Strict(k) THEN slugify(WithoutEmpty(s[k]))
                            ELSE slugify_normal(WithoutEmpty(s[k]),
                                                leave_size[k]))
    /\ [][\A k \in Calls :
              (chars'[k] = chars[k] + 1 /\ MappedEmpty(s[k][chars[k]])) =>
                  /\ bytes'[k] = <<>>
                  /\ slug'[k] = slug[k]
                  /\ prev_is_dash'[k] = prev_is_dash[k]
                  /\ empty_space_was'[k] = empty_space_was[k]
                  /\ dot_was_before'[k] = dot_was_before[k]]_vars

\* A finished slugify of letter, code point mapped to "", letter, returning
\* the two letters with nothing between them.
C12_Witness ==
    \E k \in Calls :
        /\ Strict(k) /\ Done(k)
        /\ Len(s[k]) = 3 /\ MappedEmpty(s[k][2])
        /\ IsAlnum(s[k][1]) /\ IsAlnum(s[k][3])
        /\ Len(slug[k]) = 2

----------------------------------------------------------------------------
\* What the call k's function returns for the input str.
ResultOf(str, k) ==
    IF Strict(k) THEN slugify(str) ELSE slugify_normal(str, leave_size[k])

\* The positions of str that hold a code point without a mapping or one
\* mapped to the empty string.
NoBytePositions(str) ==
    {p \in 1..Len(str) : Unmapped(str[p]) \/ MappedEmpty(str[p])}

\* str with the code point at p exchanged for one of the other kind: U+0301
\* (mapped to "") for one without a mapping, U+E000 (no mapping) for one
\* mapped to "".
OtherKindAt(str, p) ==
    [str EXCEPT ![p] = IF Unmapped(str[p]) THEN 769 ELSE 57344]

\* C13 as stated: the result is the same whether a code point has no mapping
\* or is mapped to the empty string.
C13_NoMappingSameAsEmpty ==
    \A k \in Calls :
        Done(k) =>
            \A p \in NoBytePositions(s[k]) :
                ResultOf(OtherKindAt(s[k], p), k) = slug[k]

\* C13 amended: the two cases are told apart (no mapping is a '-', the empty
\* mapping is nothing).  For slugify the two results are equal exactly when
\* the code point does not stand between two letter or digit bytes; for
\* slugify_normal they are equal whenever prev_is_dash is true when the code
\* point is reached.
C13_SameOnlyWhereDashCollapses ==
    \A k \in Calls :
        Done(k) =>
            \A p \in NoBytePositions(s[k]) :
                LET before == classified(SubSeq(s[k], 1, p - 1))
                    after == classified(SubSeq(s[k], p + 1, Len(s[k])))
                    same == ResultOf(OtherKindAt(s[k], p), k) = slug[k]
                    between == /\ before /= <<>> /\ after /= <<>>
                               /\ IsAlnum(before[Len(before)])
                               /\ IsAlnum(after[1])
                IN /\ Strict(k) => (same <=> ~between)
                   /\ (Normal(k) /\ slugify_normal_scan(
                                        slugify_normal_init, before,
                                        leave_size[k]).prev_is_dash) => same

\* A finished slugify of letter, unmapped code point, letter, returning
\* letter, '-', letter, where the empty mapping would return two letters.
C13_Witness ==
    \E k \in Calls :
        /\ Strict(k) /\ Done(k)
        /\ Len(s[k]) = 3 /\ Unmapped(s[k][2])
        /\ IsAlnum(s[k][1]) /\ IsAlnum(s[k][3])
        /\ Len(slug[k]) = 3 /\ slug[k][2] = 45
        /\ Len(ResultOf(OtherKindAt(s[k], 2), k)) = 2

----------------------------------------------------------------------------
\* The step hands one byte to push_char of call k.
PushStep(k) == pc[k] = "scan" /\ Pushed(k)' = Pushed(k) + 1

\* The byte a PushStep of call k hands to push_char, and the one before it.
PushedByte(k) == classified(s[k])[Pushed(k) + 1]

\* C14: of a maximal run of ' ' and '_' bytes slugify_normal appends the
\* first byte, and only it, when the buffer is not empty, and nothing when
\* the buffer is still empty.
C14_KeepsFirstOfBlankRun ==
    [][\A k \in Calls :
          (Normal(k) /\ PushStep(k) /\ IsBlank(PushedByte(k))) =>
              LET bs == classified(s[k])
                  n == Pushed(k) + 1
                  first == n = 1 \/ ~IsBlank(bs[n - 1])
              IN slug'[k] = IF slug[k] /= <<>> /\ first
                            THEN Append(slug[k], bs[n])
                            ELSE slug[k]]_vars

\* A scan of slugify_normal that was handed a letter, '_' and ' ' and holds
\* the letter and the '_'.
C14_Witness ==
    \E k \in Calls :
        /\ Normal(k) /\ pc[k] = "scan"
        /\ Pushed(k) = 3
        /\ classified(s[k])[2] = 95 /\ classified(s[k])[3] = 32
        /\ Len(slug[k]) = 2 /\ slug[k][2] = 95

----------------------------------------------------------------------------
\* The first letter, digit or '.' of bs, as a sequence of at most one byte.
RECURSIVE FirstKept(_)
FirstKept(bs) ==
    IF bs = <<>> THEN <<>>
    ELSE IF IsAlnum(Head(bs)) \/ Head(bs) = 46 THEN <<Head(bs)>>
    ELSE FirstKept(Tail(bs))

\* C15: the buffer never starts with a separator: in every state it is empty
\* or starts with a lower-case letter or digit (slugify) or with a letter,
\* digit or '.' (slugify_normal); once written the first byte stays, the
\* trim included, which never empties a buffer; and the result of
\* slugify_normal starts with the first letter, digit or '.' handed to
\* push_char, a '.' or (with leave_size) an upper-case letter as it is.
C15_NoLeadingSeparator ==
    /\ [](\A k \in Calls :
              /\ slug[k] /= <<>> =>
                     IF Strict(k)
                     THEN IsLower(slug[k][1]) \/ IsDigit(slug[k][1])
                     ELSE IsAlnum(slug[k][1]) \/ slug[k][1] = 46
              /\ (Done(k) /\ Normal(k)) =>
                     LET kept == FirstKept(classified(s[k]))
                     IN kept /= <<>> =>
                            /\ slug[k] /= <<>>
                            /\ slug[k][1] = IF leave_size[k] THEN kept[1]
                                            ELSE ToLower(kept[1]))
    /\ [][\A k \in Calls :
              slug[k] /= <<>> =>
                  (slug'[k] /= <<>> /\ slug'[k][1] = slug[k][1])]_vars

\* A finished slugify_normal(s, true) of a separator, a '.' and an
\* upper-case letter, returning the '.' and the upper-case letter.
C15_Witness ==
    \E k \in Calls :
        /\ Normal(k) /\ Done(k) /\ leave_size[k]
        /\ Len(s[k]) = 3 /\ s[k][1] \in {45, 32, 95, 64}
        /\ Len(slug[k]) = 2 /\ slug[k][1] = 46 /\ IsUpper(slug[k][2])

----------------------------------------------------------------------------
\* The buffer of call k as its scan leaves it.
Scanned(k) ==
    slugify_normal_scan(slugify_normal_init, classified(s[k]),
                        leave_size[k]).slug

\* The scan of a slugify_normal call is over and the call has not returned.
Trimming == \E k \in Calls : Normal(k) /\ ScanOver(k) /\ ~Done(k)

AllDone == \A k \in Calls : Done(k)

\* C16: the trim loop of slugify_normal ends, and it removes trailing '-' and
\* ' ' only: while it runs the buffer is a prefix of the scanned buffer and
\* every byte after it is '-' or ' '; the result is the longest such prefix
\* that does not end in '-' or ' ', so a trailing '_' or '.' is kept.
C16_TrimLoop ==
    /\ [](\A k \in Calls :
              (Normal(k) /\ pc[k] \in {"trim", "done"}) =>
                  LET scanned == Scanned(k)
                      n == Len(slug[k])
                  IN /\ n <= Len(scanned)
                     /\ slug[k] = SubSeq(scanned, 1, n)
                     /\ \A j \in (n + 1)..Len(scanned) :
                            scanned[j] \in {45, 32}
                     /\ (Done(k) /\ n > 0) => slug[k][n] \notin {45, 32})
    /\ (Trimming ~> AllDone)

\* A finished slugify_normal whose scan left a '_' or '.' and then a '-' or
\* ' ' at the end of the buffer: the last is removed, the '_' or '.' kept.
C16_Witness ==
    \E k \in Calls :
        /\ Normal(k) /\ Done(k)
        /\ Len(Scanned(k)) = 3
        /\ Len(slug[k]) = 2 /\ slug[k][2] \in {95, 46}

----------------------------------------------------------------------------
\* The byte x handed to push_char of call k is one the collapsing drops: a
\* byte of the '-' class while prev_is_dash, and in slugify_normal a ' ' or
\* '_' while empty_space_was or a '.' while dot_was_before.
Collapsed(k, x) ==
    IF Strict(k) THEN ~IsAlnum(x) /\ prev_is_dash[k]
    ELSE \/ ~IsAlnum(x) /\ ~IsBlank(x) /\ x /= 46 /\ prev_is_dash[k]
         \/ IsBlank(x) /\ empty_space_was[k]
         \/ x = 46 /\ dot_was_before[k]

\* C17: a byte that is collapsed changes neither the buffer nor any flag, and
\* during the scan the buffer only grows at its end, by at most one byte for
\* each byte handed to push_char.
C17_CollapsedByteChangesNothing ==
    [][\A k \in Calls :
          /\ (PushStep(k) /\ Collapsed(k, PushedByte(k))) =>
                 /\ slug'[k] = slug[k]
                 /\ prev_is_dash'[k] = prev_is_dash[k]
                 /\ empty_space_was'[k] = empty_space_was[k]
                 /\ dot_was_before'[k] = dot_was_before[k]
          /\ (pc[k] = "scan" /\ pc'[k] = "scan") =>
                 \/ slug'[k] = slug[k]
                 \/ /\ PushStep(k)
                    /\ Len(slug'[k]) = Len(slug[k]) + 1
                    /\ SubSeq(slug'[k], 1, Len(slug[k])) = slug[k]]_vars

\* A scan of slugify_normal that was handed a letter and two '.' and holds
\* the letter and one '.': the second '.' was collapsed.
C17_Witness ==
    \E k \in Calls :
        /\ Normal(k) /\ pc[k] = "scan"
        /\ Pushed(k) = 3
        /\ classified(s[k])[2] = 46 /\ classified(s[k])[3] = 46
        /\ Len(slug[k]) = 2 /\ dot_was_before[k]

----------------------------------------------------------------------------
\* C18: for every byte in 'A'..'Z' handed to push_char, x - b'A' + b'a' on u8
\* stays within 0..255 at both operations and is the lower-case letter
\* x + 32, which is what is appended (x itself in slugify_normal with
\* leave_size); for every other byte what is appended, if anything, is the
\* byte itself or '-'.
C18_LowercasingExact ==
    [][\A k \in Calls :
          PushStep(k) =>
              LET x == PushedByte(k)
              IN IF IsUpper(x)
                 THEN /\ ~to_lower_wraps(x)
                      /\ to_lower(x) = x + 32
                      /\ IsLower(to_lower(x))
                      /\ slug'[k] = Append(slug[k],
                                           IF Normal(k) /\ leave_size[k]
                                           THEN x ELSE x + 32)
                 ELSE \/ slug'[k] = slug[k]
                      \/ slug'[k] = Append(slug[k], x)
                      \/ slug'[k] = Append(slug[k], 45)]_vars

\* A scan of slugify that was handed 'Z' and holds 'z'.
C18_Witness ==
    \E k \in Calls :
        /\ Strict(k) /\ pc[k] = "scan"
        /\ s[k] = <<90>> /\ slug[k] = <<122>>

----------------------------------------------------------------------------
\* C19: slugify_normal is idempotent for a fixed leave_size:
\* slugify_normal of what a call returned, with the same leave_size, is what
\* it returned.
C19_NormalIdempotent ==
    \A k \in Calls :
        (Normal(k) /\ Done(k)) =>
            slugify_normal(slug[k], leave_size[k]) = slug[k]

\* A finished slugify_normal(s, true) whose trim removed a byte and whose
\* result is an upper-case letter and a ' ', '_', '.' or '-'.
C19_Witness ==
    \E k \in Calls :
        /\ Normal(k) /\ Done(k) /\ leave_size[k]
        /\ Len(Scanned(k)) = 3
        /\ Len(slug[k]) = 2 /\ IsUpper(slug[k][1]) /\ ~IsAlnum(slug[k][2])

----------------------------------------------------------------------------
\* str with its ASCII upper-case letters lowered.
LowerAll(str) == [j \in 1..Len(str) |-> ToLower(str[j])]

\* C20: slugify of what slugify_normal returns is slugify of the input, for
\* both values of leave_size, and slugify_normal(s, false) is
\* slugify_normal(s, true) with its upper-case letters lowered.
C20_StrictCoarsensNormal ==
    \A k \in Calls :
        (Normal(k) /\ Done(k)) =>
            /\ slugify(slug[k]) = slugify(s[k])
            /\ IF leave_size[k]
               THEN slugify_normal(s[k], FALSE) = LowerAll(slug[k])
               ELSE slug[k] = LowerAll(slugify_normal(s[k], TRUE))

\* A finished slugify_normal(s, true) returning an upper-case letter, a ' ',
\* '_' or '.', and a letter or digit: two runs that slugify joins by '-'.
C20_Witness ==
    \E k \in Calls :
        /\ Normal(k) /\ Done(k) /\ leave_size[k]
        /\ Len(slug[k]) = 3
        /\ IsUpper(slug[k][1]) /\ slug[k][2] \in {32, 95, 46}
        /\ IsAlnum(slug[k][3])
        /\ slugify(slug[k]) /= slug[k]

====
